---------------------------- MODULE Spec2Model ----------------------------
(***************************************************************************)
(* A model of CyCoreSystems/restclient: the Request lifecycle              *)
(* (NewRequest, Do, Execute, EncodeRequestBody, ProcessStatusCode,         *)
(* DecodeResponse) and the tag-driven form encoder (structToVals,          *)
(* getTagName, tagOptions.Contains).                                       *)
(*                                                                         *)
(* Representation.  A Go value that may be nil is a sequence: <<>> is nil  *)
(* and <<x>> is a non-nil value x.  Text that the code scans (struct tags, *)
(* form values, response bytes) is a sequence of atoms, one atom per       *)
(* lexical unit ("," is an atom of its own), so that strings.Index and     *)
(* slicing are computed as the code computes them.  Credentials are        *)
(* sequences of bytes so that the base64 of SetBasicAuth is computed.      *)
(***************************************************************************)
EXTENDS Integers, Sequences, FiniteSets, TLC

VARIABLES
    revision,   \* which revision of restclient.go is running
    req,        \* req[i]: the Request value of caller i (the struct's fields)
    call        \* call[i]: caller i's position in Do and what it observed

vars == <<revision, req, call>>

Nil == <<>>

Some(x) == <<x>>

\* The two revisions of the file that the repository holds.
Revisions == {"restclient.go", "part_000"}

\* The callers (each owns one Request value).
Callers == {1, 2}

-----------------------------------------------------------------------------
(* Text helpers *)

\* strings.Index(s, a): the first position of atom a in s, 0 when absent
\* (Go returns -1 and 0-based positions; the model is 1-based).
RECURSIVE IndexFrom(_, _, _)
IndexFrom(s, a, i) ==
    IF i > Len(s) THEN 0
    ELSE IF s[i] = a THEN i
    ELSE IndexFrom(s, a, i + 1)

Index(s, a) == IndexFrom(s, a, 1)

\* s[:i] and s[i+1:] of Go for a 1-based position i of the separator.
Before(s, i) == SubSeq(s, 1, i - 1)

After(s, i) == SubSeq(s, i + 1, Len(s))

-----------------------------------------------------------------------------
(* The form encoder: getTagName, tagOptions.Contains, structToVals,        *)
(* encodeForm (the second file of src/restclient_test.go, lines 106-232).  *)

\* A struct field as reflect shows it: its declared Name, its Go Type, its
\* value (Int for the numeric types, floats in ten-thousandths; Str for string
\* and []byte) and the text of its `form` and `json` tags.
\* Field names whose first letter is lower case: reflect's Interface() panics
\* on the value of such a field.
UnexportedNames == {"secret", "count", "extra", "other"}

\* The types the switch of structToVals lists.
SignedTypes == {"int", "int8", "int16", "int32", "int64"}

UnsignedTypes == {"uint", "uint8", "uint16", "uint32", "uint64"}

Digits == <<"0", "1", "2", "3", "4", "5", "6", "7", "8", "9">>

\* strconv.FormatUint(n, 10)
RECURSIVE FormatUint(_)
FormatUint(n) ==
    IF n < 10 THEN <<Digits[n + 1]>>
    ELSE FormatUint(n \div 10) \o <<Digits[(n % 10) + 1]>>

\* strconv.FormatInt(n, 10)
FormatInt(n) == IF n < 0 THEN <<"-">> \o FormatUint(0 - n) ELSE FormatUint(n)

\* strconv.FormatFloat(f, 'f', 4, bits) of a value of n ten-thousandths.
FormatFloat(n) ==
    LET a == IF n < 0 THEN 0 - n ELSE n
        frac == a % 10000
    IN  (IF n < 0 THEN <<"-">> ELSE <<>>)
        \o FormatUint(a \div 10000) \o <<".">>
        \o <<Digits[(frac \div 1000) + 1], Digits[((frac \div 100) % 10) + 1],
             Digits[((frac \div 10) % 10) + 1], Digits[(frac % 10) + 1]>>

\* tagOptions.Contains: scan the comma-separated options for optionName.
RECURSIVE ContainsLoop(_, _)
ContainsLoop(s, optionName) ==
    IF s = <<>> THEN FALSE
    ELSE LET i    == Index(s, ",")
             head == IF i > 0 THEN Before(s, i) ELSE s
             next == IF i > 0 THEN After(s, i) ELSE <<>>
         IN  IF head = optionName THEN TRUE ELSE ContainsLoop(next, optionName)

Contains(o, optionName) ==
    IF Len(o) = 0 THEN FALSE ELSE ContainsLoop(o, optionName)

\* The "Extract options" block shared by the form and the json branch.
SplitTag(tagText) ==
    LET index == Index(tagText, ",")
    IN  IF index # 0
        THEN [name |-> Before(tagText, index), opts |-> After(tagText, index)]
        ELSE [name |-> tagText, opts |-> <<>>]

\* getTagName: the form tag first, then the json tag, then the field's name.
getTagName(f) ==
    IF f.FormTag # <<>>
    THEN IF f.FormTag = <<"-">> THEN [name |-> <<>>, opts |-> <<>>]
         ELSE SplitTag(f.FormTag)
    ELSE IF f.JsonTag # <<>>
    THEN IF f.JsonTag = <<"-">> THEN [name |-> <<>>, opts |-> <<>>]
         ELSE SplitTag(f.JsonTag)
    ELSE [name |-> <<f.Name>>, opts |-> <<>>]

\* The type switch of structToVals: the formatted value, or handled = FALSE
\* for the default branch ("Ignoring unhandled type").
FormatField(f) ==
    IF f.Type \in SignedTypes THEN [handled |-> TRUE, val |-> FormatInt(f.Int)]
    ELSE IF f.Type \in UnsignedTypes THEN [handled |-> TRUE, val |-> FormatUint(f.Int)]
    ELSE IF f.Type \in {"float32", "float64"}
         THEN [handled |-> TRUE, val |-> FormatFloat(f.Int)]
    ELSE IF f.Type \in {"[]byte", "string"} THEN [handled |-> TRUE, val |-> f.Str]
    ELSE [handled |-> FALSE, val |-> <<>>]

\* url.Values.Set(name, val)
ValuesSet(v, name, val) ==
    [k \in (DOMAIN v) \cup {name} |-> IF k = name THEN <<val>> ELSE v[k]]

\* The omitempty test without the look at the options.
OmitFieldWhenEmpty(val, opts) == val = <<>>

\* The omitempty test of structToVals (line 169).
OmitField(val, opts) == val = <<>> /\ Contains(opts, <<"omitempty">>)

\* One iteration of the loop of structToVals on field f, v being the
\* url.Values so far.
FieldStep(v, f) ==
    LET fmt == FormatField(f)
        tag == getTagName(f)
    IN  IF ~fmt.handled THEN v
        ELSE IF tag.name = <<>> THEN v
        ELSE IF OmitField(fmt.val, tag.opts) THEN v
        ELSE ValuesSet(v, tag.name, fmt.val)

RECURSIVE FieldLoop(_, _, _)
FieldLoop(v, fields, i) ==
    IF i > Len(fields) THEN v
    ELSE FieldLoop(FieldStep(v, fields[i]), fields, i + 1)

\* structToVals panics (reflect) when s is not a pointer (Elem), when it
\* points to no struct (NumField) and when a field is unexported (Interface).
StructToValsPanics(s) ==
    \/ s.kind # "ptr"
    \/ \E i \in 1..Len(s.fields) : s.fields[i].Name \in UnexportedNames

EmptyValues == [k \in {} |-> <<>>]

structToVals(s) ==
    IF StructToValsPanics(s)
    THEN [panic |-> TRUE, v |-> EmptyValues, err |-> Nil]
    ELSE [panic |-> FALSE, v |-> FieldLoop(EmptyValues, s.fields, 1), err |-> Nil]

\* The atoms of the model in the byte order Go compares strings by.
AtomOrder ==
    <<" ", "%26", "%2C", "%3D", "&", "+", ",", "-", ".",
      "0", "1", "2", "3", "4", "5", "6", "7", "8", "9", "=",
      "Count", "Extra", "Other", "Variable", "hi", "name", "omitempty",
      "variable", "x">>

Rank(a) == Index(AtomOrder, a)

\* a < b for two texts, as Go's string comparison orders them.
RECURSIVE Less(_, _)
Less(a, b) ==
    IF b = <<>> THEN FALSE
    ELSE IF a = <<>> THEN TRUE
    ELSE IF Rank(Head(a)) # Rank(Head(b)) THEN Rank(Head(a)) < Rank(Head(b))
    ELSE Less(Tail(a), Tail(b))

\* url.QueryEscape, atom by atom.
EscapeAtom(a) ==
    IF a = " " THEN "+"
    ELSE IF a = "&" THEN "%26"
    ELSE IF a = "," THEN "%2C"
    ELSE IF a = "=" THEN "%3D"
    ELSE a

QueryEscape(s) == [i \in 1..Len(s) |-> EscapeAtom(s[i])]

\* url.Values.Encode: the keys sorted, "k=v" joined by "&".
RECURSIVE EncodeKeys(_, _)
EncodeKeys(v, keys) ==
    IF keys = {} THEN <<>>
    ELSE LET k    == CHOOSE x \in keys : \A y \in keys \ {x} : Less(x, y)
             rest == EncodeKeys(v, keys \ {k})
         IN  QueryEscape(k) \o <<"=">> \o QueryEscape(v[k][1])
             \o (IF rest = <<>> THEN <<>> ELSE <<"&">> \o rest)

Encode(v) == EncodeKeys(v, DOMAIN v)

\* encodeForm: structToVals, then Encode.
encodeForm(body) ==
    LET r == structToVals(body)
    IN  IF r.panic THEN [panic |-> TRUE, out |-> <<>>, err |-> Nil]
        ELSE IF r.err # Nil THEN [panic |-> FALSE, out |-> <<>>, err |-> r.err]
        ELSE [panic |-> FALSE, out |-> Encode(r.v), err |-> Nil]

-----------------------------------------------------------------------------
(* Library functions the lifecycle calls, on the values of the model.      *)

\* The standard base64 alphabet; "=" pads.
B64Alphabet ==
    <<"A", "B", "C", "D", "E", "F", "G", "H", "I", "J", "K", "L", "M", "N", "O", "P",
      "Q", "R", "S", "T", "U", "V", "W", "X", "Y", "Z", "a", "b", "c", "d", "e", "f",
      "g", "h", "i", "j", "k", "l", "m", "n", "o", "p", "q", "r", "s", "t", "u", "v",
      "w", "x", "y", "z", "0", "1", "2", "3", "4", "5", "6", "7", "8", "9", "+", "/">>

B64Char(n) == B64Alphabet[n + 1]

B64Value(c) == Index(B64Alphabet, c) - 1

\* base64.StdEncoding.EncodeToString of a sequence of bytes.
RECURSIVE Base64Encode(_)
Base64Encode(bs) ==
    IF Len(bs) = 0 THEN <<>>
    ELSE IF Len(bs) = 1
    THEN <<B64Char(bs[1] \div 4), B64Char((bs[1] % 4) * 16), "=", "=">>
    ELSE IF Len(bs) = 2
    THEN <<B64Char(bs[1] \div 4),
           B64Char((bs[1] % 4) * 16 + bs[2] \div 16),
           B64Char((bs[2] % 16) * 4), "=">>
    ELSE <<B64Char(bs[1] \div 4),
           B64Char((bs[1] % 4) * 16 + bs[2] \div 16),
           B64Char((bs[2] % 16) * 4 + bs[3] \div 64),
           B64Char(bs[3] % 64)>> \o Base64Encode(SubSeq(bs, 4, Len(bs)))

\* http.Request.SetBasicAuth's header value: "Basic " + base64(username:password).
BasicAuthValue(username, password) ==
    <<"Basic ">> \o Base64Encode(username \o <<58>> \o password)

\* The methods and URLs http.NewRequest refuses (validMethod, url.Parse).
InvalidMethods == {"BAD METHOD"}

UnparsableUrls == {"%zz"}

HeaderNames == {"Content-Type", "Authorization", "Accept"}

EmptyHeader == [h \in HeaderNames |-> <<>>]

\* http.Header.Add and http.Header.Set
HeaderAdd(h, k, v) == [h EXCEPT ![k] = Append(@, v)]

HeaderSet(h, k, v) == [h EXCEPT ![k] = <<v>>]

\* http.NewRequest(method, url, body): a request with an empty header, or an
\* error and no request.
HttpNewRequest(method, url, body) ==
    IF method \in InvalidMethods
    THEN [Request |-> Nil,
          err |-> Some([type |-> "error", msg |-> <<"net/http: invalid method ", method>>])]
    ELSE IF url \in UnparsableUrls
    THEN [Request |-> Nil, err |-> Some([type |-> "error", msg |-> <<"parse ", url>>])]
    ELSE [Request |-> Some([Method |-> IF method = "" THEN "GET" ELSE method,
                            URL |-> url, Body |-> body, Header |-> EmptyHeader]),
          err |-> Nil]

\* json.Marshal of a request body: a channel has no JSON form; a struct (or a
\* pointer to one) marshals its exported fields under their json names.
JsonFieldName(f) ==
    IF f.JsonTag = <<>> THEN <<f.Name>> ELSE SplitTag(f.JsonTag).name

JsonFieldValue(f) ==
    IF f.Type \in {"string", "[]byte"} THEN f.Str
    ELSE IF f.Type \in {"float32", "float64"} THEN FormatFloat(f.Int)
    ELSE FormatInt(f.Int)

RECURSIVE JsonMembers(_, _, _)
JsonMembers(fields, i, first) ==
    IF i > Len(fields) THEN <<>>
    ELSE LET f == fields[i]
         IN  IF f.Name \in UnexportedNames \/ f.JsonTag = <<"-">>
             THEN JsonMembers(fields, i + 1, first)
             ELSE (IF first THEN <<>> ELSE <<",">>)
                  \o JsonFieldName(f) \o <<":">> \o JsonFieldValue(f)
                  \o JsonMembers(fields, i + 1, FALSE)

JsonMarshal(body) ==
    IF body.kind = "chan"
    THEN [out |-> <<>>, err |-> Some([type |-> "error", msg |-> <<"json: unsupported type: chan int">>])]
    ELSE [out |-> <<"{">> \o JsonMembers(body.fields, 1, TRUE) \o <<"}">>, err |-> Nil]

\* json.Unmarshal(data, v): the syntax is checked first, then the destination
\* (nil or no pointer is an InvalidUnmarshalError), then the document is
\* stored.  The destination is a struct with one string field, Variable.
JsonSyntaxOk(data) ==
    \/ data = <<"{", "}">>
    \/ /\ Len(data) = 5
       /\ data[1] = "{" /\ data[3] = ":" /\ data[5] = "}"
       /\ data[2] \notin {"{", "}", ":", ","}
       /\ data[4] \notin {"{", "}", ":", ","}

JsonUnmarshal(data, v) ==
    IF ~JsonSyntaxOk(data)
    THEN [v |-> v, err |-> Some([type |-> "error", msg |-> <<"unexpected end of JSON input">>])]
    ELSE IF v = Nil
    THEN [v |-> v, err |-> Some([type |-> "error", msg |-> <<"json: Unmarshal(nil)">>])]
    ELSE IF ~v[1].ptr
    THEN [v |-> v, err |-> Some([type |-> "error", msg |-> <<"json: Unmarshal(non-pointer)">>])]
    ELSE IF Len(data) = 5 /\ data[2] = "variable"
    THEN [v |-> Some([v[1] EXCEPT !.Variable = data[4]]), err |-> Nil]
    ELSE [v |-> v, err |-> Nil]

-----------------------------------------------------------------------------
(* The Request struct and its methods (restclient.go).                     *)

\* The default timeout of NewRequest, in seconds.
DefaultTimeout == 2

\* The zero value of the Request struct.
ZeroRequest ==
    [Method |-> "", Url |-> "", Auth |-> [Username |-> <<>>, Password |-> <<>>],
     QueryParameters |-> Nil, RequestBody |-> Nil, RequestType |-> "",
     ResponseBody |-> Nil, RequestReader |-> Nil, ResponseRaw |-> Nil,
     Timeout |-> 0, Client |-> Nil, Request |-> Nil, Response |-> Nil]

\* NewRequest without the default timeout.
NewRequestNoTimeout(method, url, auth) ==
    [ZeroRequest EXCEPT !.Method = method, !.Url = url, !.Auth = auth]

NewRequest(method, url, auth) ==
    [ZeroRequest EXCEPT !.Method = method, !.Url = url, !.Auth = auth,
                        !.Timeout = DefaultTimeout]

\* encodeJson
encodeJson(body) ==
    LET m == JsonMarshal(body)
    IN  [panic |-> FALSE, out |-> m.out, err |-> m.err]

\* An EncodeRequestBody that returns from an unknown kind before it makes
\* the reader.
EncodeRequestBodySkipsUnknownKind(r) ==
    IF r.RequestBody = Nil THEN [r |-> r, err |-> Nil, panic |-> FALSE]
    ELSE
      LET r1  == IF r.RequestType = "" THEN [r EXCEPT !.RequestType = "json"] ELSE r
          enc == IF r1.RequestType = "form" THEN encodeForm(r1.RequestBody[1])
                 ELSE encodeJson(r1.RequestBody[1])
      IN  IF r1.RequestType \notin {"form", "json"}
          THEN [r |-> r1, err |-> Nil, panic |-> FALSE]
          ELSE IF enc.panic THEN [r |-> r1, err |-> Nil, panic |-> TRUE]
          ELSE IF enc.err # Nil THEN [r |-> r1, err |-> enc.err, panic |-> FALSE]
          ELSE [r |-> [r1 EXCEPT !.RequestReader = Some([bytes |-> enc.out])],
                err |-> Nil, panic |-> FALSE]

\* An EncodeRequestBody whose switch sends every kind but form to the json
\* encoder.
EncodeRequestBodyDefaultsToJson(r) ==
    IF r.RequestBody = Nil THEN [r |-> r, err |-> Nil, panic |-> FALSE]
    ELSE
      LET r1  == IF r.RequestType = "" THEN [r EXCEPT !.RequestType = "json"] ELSE r
          enc == IF r1.RequestType = "form" THEN encodeForm(r1.RequestBody[1])
                 ELSE encodeJson(r1.RequestBody[1])
      IN  IF enc.panic THEN [r |-> r1, err |-> Nil, panic |-> TRUE]
          ELSE IF enc.err # Nil THEN [r |-> r1, err |-> enc.err, panic |-> FALSE]
          ELSE [r |-> [r1 EXCEPT !.RequestReader = Some([bytes |-> enc.out])],
                err |-> Nil, panic |-> FALSE]

\* EncodeRequestBody: [r, err, panic]; r is the Request afterwards.
EncodeRequestBody(r) ==
    IF r.RequestBody = Nil THEN [r |-> r, err |-> Nil, panic |-> FALSE]
    ELSE
      LET r1  == IF r.RequestType = "" THEN [r EXCEPT !.RequestType = "json"] ELSE r
          enc == IF r1.RequestType = "form" THEN encodeForm(r1.RequestBody[1])
                 ELSE IF r1.RequestType = "json" THEN encodeJson(r1.RequestBody[1])
                 ELSE [panic |-> FALSE, out |-> <<>>, err |-> Nil]
      IN  IF enc.panic THEN [r |-> r1, err |-> Nil, panic |-> TRUE]
          ELSE IF enc.err # Nil THEN [r |-> r1, err |-> enc.err, panic |-> FALSE]
          ELSE [r |-> [r1 EXCEPT !.RequestReader = Some([bytes |-> enc.out])],
                err |-> Nil, panic |-> FALSE]

\* createHTTPClient: a fresh client whose transport dials within r.Timeout.
createHTTPClient(r) ==
    [r EXCEPT !.Client = Some([Transport |-> [DialTimeout |-> r.Timeout]])]

\* createHTTPRequest: [r, err]
createHTTPRequest(r) ==
    LET n == HttpNewRequest(r.Method, r.Url, r.RequestReader)
    IN  [r |-> [r EXCEPT !.Request = n.Request], err |-> n.err]

\* The switch on r.RequestType in Do: the Content-Type it adds, Nil for none.
\* restclient.go has the cases "json" and "form"; part_000 adds the case "".
ContentTypeFor(rev, requestType) ==
    IF requestType = "json" THEN Some("application/json")
    ELSE IF requestType = "form" THEN Some("application/x-www-form-urlencoded")
    ELSE IF requestType = "" /\ rev = "part_000" THEN Some("application/json")
    ELSE Nil

SetContentType(rev, r) ==
    LET ct == ContentTypeFor(rev, r.RequestType)
    IN  IF ct = Nil THEN r
        ELSE [r EXCEPT !.Request =
                 Some([@[1] EXCEPT !.Header = HeaderAdd(@, "Content-Type", <<ct[1]>>)])]

\* ApplyAuth that tests for any credential instead of the username.
ApplyAuthAnyCredential(r) ==
    IF r.Auth.Username # <<>> \/ r.Auth.Password # <<>>
    THEN [r EXCEPT !.Request =
             Some([@[1] EXCEPT !.Header =
                 HeaderSet(@, "Authorization",
                           BasicAuthValue(r.Auth.Username, r.Auth.Password))])]
    ELSE r

\* "Apply authentication information" in Do.
ApplyAuth(r) ==
    IF r.Auth.Username # <<>>
    THEN [r EXCEPT !.Request =
             Some([@[1] EXCEPT !.Header =
                 HeaderSet(@, "Authorization",
                           BasicAuthValue(r.Auth.Username, r.Auth.Password))])]
    ELSE r

\* StatusErrorType with the upper end of the 5xx range off by one.
StatusErrorTypeOffByOne(code) ==
    IF code = 404 THEN "NotFoundError"
    ELSE IF code >= 400 /\ code < 500 THEN "RequestError"
    ELSE IF code >= 500 /\ code <= 600 THEN "ServerError"
    ELSE "error"

\* The switch of ProcessStatusCode on a status code outside [200,300): the
\* type of the error it returns, "error" being a plain fmt.Errorf error.
StatusErrorType(code) ==
    IF code = 404 THEN "NotFoundError"
    ELSE IF code >= 400 /\ code < 500 THEN "RequestError"
    ELSE IF code >= 500 /\ code < 600 THEN "ServerError"
    ELSE "error"

\* NotFoundError{...}, RequestError{...}, ServerError{...}: the code, the
\* status text and fmt.Errorf("%s", resp.Status).
TypedError(type, resp) ==
    [type |-> type, StatusCode |-> resp.StatusCode, Status |-> resp.Status,
     Err |-> [type |-> "error", msg |-> <<resp.Status>>]]

\* ProcessStatusCode that takes every code below 400 for a success.
ProcessStatusCodeLax(r) ==
    LET resp == r.Response[1]
    IN  IF resp.StatusCode >= 400
        THEN IF StatusErrorType(resp.StatusCode) = "error"
             THEN Some([type |-> "error",
                        msg |-> <<"Unhandled StatusCode: ", resp.Status>>])
             ELSE Some(TypedError(StatusErrorType(resp.StatusCode), resp))
        ELSE Nil

\* ProcessStatusCode: the error for r.Response's status code, Nil for none.
ProcessStatusCode(r) ==
    LET resp == r.Response[1]
    IN  IF resp.StatusCode >= 300 \/ resp.StatusCode < 200
        THEN IF StatusErrorType(resp.StatusCode) = "error"
             THEN Some([type |-> "error",
                        msg |-> <<"Unhandled StatusCode: ", resp.Status>>])
             ELSE Some(TypedError(StatusErrorType(resp.StatusCode), resp))
        ELSE Nil

\* DecodeResponse without the test of the body's length.
DecodeResponseNoLengthCheck(r) ==
    LET body == r.Response[1].Body
        u    == JsonUnmarshal(body.bytes, r.ResponseBody)
    IN  IF body.readErr
        THEN [r |-> r, read |-> TRUE,
              err |-> Some([type |-> "error",
                            msg |-> <<"Failed to read from body:", "%!(EXTRA)">>])]
        ELSE IF u.err # Nil
        THEN [r |-> [r EXCEPT !.ResponseBody = u.v], read |-> TRUE,
              err |-> Some([type |-> "error",
                            msg |-> <<"Failed to decode response: ">> \o u.err[1].msg])]
        ELSE [r |-> [r EXCEPT !.ResponseBody = u.v], read |-> TRUE, err |-> Nil]

\* DecodeResponse: [r, err, read]; read tells that the body was read.
DecodeResponse(r) ==
    LET body == r.Response[1].Body
    IN  IF body.readErr
        THEN [r |-> r, read |-> TRUE,
              err |-> Some([type |-> "error",
                            msg |-> <<"Failed to read from body:", "%!(EXTRA)">>])]
        ELSE IF Len(body.bytes) > 0
        THEN LET u == JsonUnmarshal(body.bytes, r.ResponseBody)
             IN  IF u.err # Nil
                 THEN [r |-> [r EXCEPT !.ResponseBody = u.v], read |-> TRUE,
                       err |-> Some([type |-> "error",
                                     msg |-> <<"Failed to decode response: ">>
                                             \o u.err[1].msg])]
                 ELSE [r |-> [r EXCEPT !.ResponseBody = u.v], read |-> TRUE,
                       err |-> Nil]
        ELSE [r |-> r, read |-> TRUE, err |-> Nil]

-----------------------------------------------------------------------------
(* The inputs the callers and the network draw from.                       *)

Methods == {"GET", "BAD METHOD"}

Urls == {"url.com", "%zz"}

\* Credentials as bytes: "", "e", "ed" and "", "p".
Usernames == {<<>>, <<101>>, <<101, 100>>}

Passwords == {<<>>, <<112>>}

\* TestStructRequest{"hi"} of the tests: one string field tagged json:"variable".
TestField ==
    [Name |-> "Variable", Type |-> "string", Int |-> 0, Str |-> <<"hi">>,
     FormTag |-> <<>>, JsonTag |-> <<"variable">>]

\* Request bodies: nil, &TestStructRequest{"hi"}, TestStructRequest{"hi"} and a
\* channel (which json cannot marshal).
Bodies ==
    {Nil,
     Some([kind |-> "ptr", fields |-> <<TestField>>]),
     Some([kind |-> "struct", fields |-> <<TestField>>]),
     Some([kind |-> "chan", fields |-> <<>>])}

RequestTypes == {"", "json", "form", "xml"}

\* Destinations: nil, a pointer to a struct and a struct passed by value.
Destinations ==
    {Nil, Some([ptr |-> TRUE, Variable |-> "old"]), Some([ptr |-> FALSE, Variable |-> "old"])}

StatusCodes == {-1, 0, 199, 200, 299, 300, 399, 400, 404, 405, 499, 500, 599, 600, 1000}

Statuses == {"", "404 Not Found"}

\* Response bodies: empty, {"variable":"x"}, {} and a truncated document;
\* readErr is a body whose Read fails.
ResponseBodies ==
    {[bytes |-> <<>>, readErr |-> FALSE],
     [bytes |-> <<"{", "variable", ":", "x", "}">>, readErr |-> FALSE],
     [bytes |-> <<"{", "}">>, readErr |-> FALSE],
     [bytes |-> <<"{", "variable">>, readErr |-> FALSE],
     [bytes |-> <<>>, readErr |-> TRUE]}

\* What http.Client.Do returns: a transport error, or a response.
TransportError == Some([type |-> "error", msg |-> <<"dial tcp: i/o timeout">>])

ClientDoOutcomes ==
    {[Response |-> Nil, err |-> TransportError]}
    \cup {[Response |-> Some([StatusCode |-> c, Status |-> t, Body |-> b]), err |-> Nil] :
            c \in StatusCodes, t \in Statuses, b \in ResponseBodies}

\* The outcomes drawn while two calls are in flight: the transport error, and
\* 200 and 404 with an empty body, a document and a truncated document.
PairOutcomes ==
    {o \in ClientDoOutcomes :
        o.Response # Nil =>
            /\ o.Response[1].StatusCode \in {200, 404}
            /\ o.Response[1].Status = ""
            /\ ~o.Response[1].Body.readErr
            /\ o.Response[1].Body.bytes # <<"{", "}">>}

-----------------------------------------------------------------------------
(* The state of one call.                                                  *)

\* pc: "off" (a caller that does nothing), "start", "built" (NewRequest
\* returned), then the stage of Do that runs next, then "done" (Do returned)
\* or "panic".  returned/err: Do's result.  stage: the stage Do returned
\* from.  body: the response body, "none", "open" or "closed".  sent: the
\* request handed to Client.Do.  classified/classErr: ProcessStatusCode's
\* result.  kind0/dest0/args: the declared kind and the destination when Do
\* started, and the arguments of NewRequest.  trace: the stages run so far.
\* inDo: Do has been invoked.  req0: the Request Do was invoked on.
\* outcome: what Client.Do returned.  helper: the shorthand that made the call.
NewCall(pc) ==
    [pc |-> pc, returned |-> FALSE, err |-> Nil, stage |-> "",
     netCalls |-> 0, body |-> "none", bodyRead |-> FALSE, sent |-> Nil,
     classified |-> FALSE, classErr |-> Nil,
     kind0 |-> "", dest0 |-> Nil, args |-> Nil, trace |-> <<>>,
     inDo |-> FALSE, req0 |-> Nil, outcome |-> Nil, helper |-> ""]

\* The Request r with Do invoked on it.
InvokeDo(c, r) ==
    [c EXCEPT !.pc = "EncodeRequestBody", !.inDo = TRUE, !.req0 = Some(r),
              !.kind0 = r.RequestType, !.dest0 = r.ResponseBody]

\* A return of Do that wraps the stage's error in a new one.
DoReturnWrapped(c, stage, err) ==
    [c EXCEPT !.pc = "done", !.returned = TRUE, !.stage = stage,
              !.err = IF err = Nil THEN Nil
                      ELSE Some([type |-> "error", msg |-> <<"Do: request failed">>,
                                 cause |-> err[1]])]

\* `return err` of Do (lines 105-107, 114-116, 140-142): the stage's error as is.
DoReturn(c, stage, err) ==
    [c EXCEPT !.pc = "done", !.returned = TRUE, !.err = err, !.stage = stage]

\* A return of Execute that closes the body on the success path alone.
ExecuteReturnLeak(c, stage, err) ==
    [DoReturn(c, stage, err) EXCEPT !.body = IF err = Nil THEN "closed" ELSE "open"]

\* A return of Execute after the response arrived: the deferred
\* r.Response.Body.Close() runs, and Do returns Execute's error as is.
ExecuteReturn(c, stage, err) ==
    [DoReturn(c, stage, err) EXCEPT !.body = "closed"]

Ran(c, stage) == [c EXCEPT !.trace = Append(@, stage)]

\* The outcomes the network call of one caller is drawn from.
NetworkOutcomes ==
    IF \A j \in Callers : call[j].pc # "off" THEN PairOutcomes ELSE ClientDoOutcomes

-----------------------------------------------------------------------------
(* The actions.                                                            *)

\* A caller builds its Request: req := NewRequest(method, url, auth).
CallNewRequest(i) ==
    /\ call[i].pc = "start"
    /\ \E method \in Methods, url \in Urls, u \in Usernames, p \in Passwords :
         LET auth == [Username |-> u, Password |-> p]
         IN  /\ req' = [req EXCEPT ![i] = NewRequest(method, url, auth)]
             /\ call' = [call EXCEPT ![i] =
                    [@ EXCEPT !.pc = "built",
                              !.args = Some([method |-> method, url |-> url, auth |-> auth])]]
    /\ UNCHANGED revision

\* The caller sets the body, the kind and the destination and calls Do
\* (as the shorthands do, restclient.go lines 356-361).
CallDo(i) ==
    /\ call[i].pc = "built"
    /\ \E body \in Bodies, kind \in RequestTypes, dest \in Destinations :
         LET r == [req[i] EXCEPT !.RequestBody = body, !.RequestType = kind,
                                 !.ResponseBody = dest]
         IN  /\ req' = [req EXCEPT ![i] = r]
             /\ call' = [call EXCEPT ![i] = InvokeDo(@, r)]
    /\ UNCHANGED revision

\* Do, lines 104-107.
DoEncodeRequestBody(i) ==
    /\ call[i].pc = "EncodeRequestBody"
    /\ LET e == EncodeRequestBody(req[i])
           c == Ran(call[i], "EncodeRequestBody")
       IN  /\ req' = [req EXCEPT ![i] = e.r]
           /\ call' = [call EXCEPT ![i] =
                  IF e.panic THEN [c EXCEPT !.pc = "panic"]
                  ELSE IF e.err # Nil THEN DoReturn(c, "EncodeRequestBody", e.err)
                  ELSE [c EXCEPT !.pc = "createHTTPClient"]]
    /\ UNCHANGED revision

\* A createHTTPClient stage that builds one client for the package and
\* stores it in every Request.
DoCreateHTTPClientShared(i) ==
    /\ call[i].pc = "createHTTPClient"
    /\ req' = [j \in Callers |-> createHTTPClient(req[j])]
    /\ call' = [call EXCEPT ![i] =
           [Ran(@, "createHTTPClient") EXCEPT !.pc = "createHTTPRequest"]]
    /\ UNCHANGED revision

\* Do, line 110.
DoCreateHTTPClient(i) ==
    /\ call[i].pc = "createHTTPClient"
    /\ req' = [req EXCEPT ![i] = createHTTPClient(@)]
    /\ call' = [call EXCEPT ![i] =
           [Ran(@, "createHTTPClient") EXCEPT !.pc = "createHTTPRequest"]]
    /\ UNCHANGED revision

\* Do, lines 113-116.
DoCreateHTTPRequest(i) ==
    /\ call[i].pc = "createHTTPRequest"
    /\ LET n == createHTTPRequest(req[i])
           c == Ran(call[i], "createHTTPRequest")
       IN  /\ req' = [req EXCEPT ![i] = n.r]
           /\ call' = [call EXCEPT ![i] =
                  IF n.err # Nil THEN DoReturn(c, "createHTTPRequest", n.err)
                  ELSE [c EXCEPT !.pc = "SetHeaders"]]
    /\ UNCHANGED revision

\* Do, lines 118-125.
DoSetHeaders(i) ==
    /\ call[i].pc = "SetHeaders"
    /\ req' = [req EXCEPT ![i] = SetContentType(revision, @)]
    /\ call' = [call EXCEPT ![i] = [Ran(@, "SetHeaders") EXCEPT !.pc = "ApplyAuth"]]
    /\ UNCHANGED revision

\* Do, lines 127-133.
DoApplyAuth(i) ==
    /\ call[i].pc = "ApplyAuth"
    /\ req' = [req EXCEPT ![i] = ApplyAuth(@)]
    /\ call' = [call EXCEPT ![i] = [Ran(@, "ApplyAuth") EXCEPT !.pc = "Execute"]]
    /\ UNCHANGED revision

\* An Execute that makes the network call again after a transport error.
DoExecuteRetry(i) ==
    /\ call[i].pc = "Execute"
    /\ \E o \in NetworkOutcomes :
         LET c == [Ran(call[i], "Execute") EXCEPT !.netCalls = @ + 1,
                                                  !.sent = req[i].Request,
                                                  !.outcome = Some(o)]
         IN  /\ req' = [req EXCEPT ![i] = [@ EXCEPT !.Response = o.Response]]
             /\ call' = [call EXCEPT ![i] =
                    IF o.err # Nil
                    THEN IF call[i].netCalls = 0 THEN c
                         ELSE DoReturn(c, "Execute", o.err)
                    ELSE [c EXCEPT !.pc = "ProcessStatusCode", !.body = "open"]]
    /\ UNCHANGED revision

\* Execute, lines 158-163: the network call; on an error Execute and Do return it.
DoExecute(i) ==
    /\ call[i].pc = "Execute"
    /\ \E o \in NetworkOutcomes :
         LET c == [Ran(call[i], "Execute") EXCEPT !.netCalls = @ + 1,
                                                  !.sent = req[i].Request,
                                                  !.outcome = Some(o)]
         IN  /\ req' = [req EXCEPT ![i] = [@ EXCEPT !.Response = o.Response]]
             /\ call' = [call EXCEPT ![i] =
                    IF o.err # Nil THEN DoReturn(c, "Execute", o.err)
                    ELSE [c EXCEPT !.pc = "ProcessStatusCode", !.body = "open"]]
    /\ UNCHANGED revision

\* Execute, lines 170-173.
DoProcessStatusCode(i) ==
    /\ call[i].pc = "ProcessStatusCode"
    /\ LET err == ProcessStatusCode(req[i])
           c   == [Ran(call[i], "ProcessStatusCode") EXCEPT !.classified = TRUE,
                                                            !.classErr = err]
       IN  call' = [call EXCEPT ![i] =
               IF err # Nil THEN ExecuteReturn(c, "ProcessStatusCode", err)
               ELSE [c EXCEPT !.pc = "DecodeResponse"]]
    /\ UNCHANGED <<revision, req>>

\* A decode stage whose error Execute does not return.
DoDecodeResponseDropsError(i) ==
    /\ call[i].pc = "DecodeResponse"
    /\ LET d == DecodeResponse(req[i])
           c == [Ran(call[i], "DecodeResponse") EXCEPT !.bodyRead = d.read]
       IN  /\ req' = [req EXCEPT ![i] = d.r]
           /\ call' = [call EXCEPT ![i] = ExecuteReturn(c, "DecodeResponse", Nil)]
    /\ UNCHANGED revision

\* Execute, lines 176-184, and Do, lines 140-147.
DoDecodeResponse(i) ==
    /\ call[i].pc = "DecodeResponse"
    /\ LET d == DecodeResponse(req[i])
           c == [Ran(call[i], "DecodeResponse") EXCEPT !.bodyRead = d.read]
       IN  /\ req' = [req EXCEPT ![i] = d.r]
           /\ call' = [call EXCEPT ![i] = ExecuteReturn(c, "DecodeResponse", d.err)]
    /\ UNCHANGED revision

Init ==
    /\ revision \in Revisions
    /\ req = [i \in Callers |-> ZeroRequest]
    /\ call = [i \in Callers |-> IF i = 1 THEN NewCall("start") ELSE NewCall("off")]

Step(i) ==
    \/ CallNewRequest(i)
    \/ CallDo(i)
    \/ DoEncodeRequestBody(i)
    \/ DoCreateHTTPClient(i)
    \/ DoCreateHTTPRequest(i)
    \/ DoSetHeaders(i)
    \/ DoApplyAuth(i)
    \/ DoExecute(i)
    \/ DoProcessStatusCode(i)
    \/ DoDecodeResponse(i)

Next == \E i \in Callers : Step(i)

Spec == Init /\ [][Next]_vars

-----------------------------------------------------------------------------
(* The form encoder on its own: every record of at most MaxFields fields   *)
(* is the body of a request of kind form, and the encode stage runs on it. *)

MaxFields == 2

\* The names of a record's fields by position, exported and unexported.
ExportedFieldNames == <<"Variable", "Count", "Extra", "Other">>

UnexportedFieldNames == <<"secret", "count", "extra", "other">>

\* Field types and values: "", "hi", 0, -7, 1.5, an empty []byte and a bool.
FieldValues ==
    {[Type |-> "string", Int |-> 0, Str |-> <<>>],
     [Type |-> "string", Int |-> 0, Str |-> <<"hi">>],
     [Type |-> "int", Int |-> 0 - 7, Str |-> <<>>],
     [Type |-> "float64", Int |-> 15000, Str |-> <<>>],
     [Type |-> "[]byte", Int |-> 0, Str |-> <<>>],
     [Type |-> "bool", Int |-> 1, Str |-> <<>>]}

\* The `form` and `json` tags of a field.
FieldTags ==
    {[FormTag |-> <<>>, JsonTag |-> <<>>],
     [FormTag |-> <<"-">>, JsonTag |-> <<>>],
     [FormTag |-> <<>>, JsonTag |-> <<"-">>],
     [FormTag |-> <<"-">>, JsonTag |-> <<"variable">>],
     [FormTag |-> <<"name">>, JsonTag |-> <<"-">>],
     [FormTag |-> <<"name", ",", "omitempty">>, JsonTag |-> <<>>],
     [FormTag |-> <<"name", ",", "x", ",", "omitempty">>, JsonTag |-> <<"variable">>],
     [FormTag |-> <<",", "omitempty">>, JsonTag |-> <<"variable">>],
     [FormTag |-> <<>>, JsonTag |-> <<"variable", ",", "omitempty">>]}

FieldShapes ==
    {[exported |-> TRUE, Type |-> v.Type, Int |-> v.Int, Str |-> v.Str,
      FormTag |-> t.FormTag, JsonTag |-> t.JsonTag] : v \in FieldValues, t \in FieldTags}
    \cup {[exported |-> FALSE, Type |-> "string", Int |-> 0, Str |-> <<"hi">>,
           FormTag |-> <<>>, JsonTag |-> <<>>]}

\* The struct whose k-th field has the k-th shape.
RecordOf(shapes) ==
    [k \in 1..Len(shapes) |->
        [Name |-> IF shapes[k].exported THEN ExportedFieldNames[k]
                  ELSE UnexportedFieldNames[k],
         Type |-> shapes[k].Type, Int |-> shapes[k].Int, Str |-> shapes[k].Str,
         FormTag |-> shapes[k].FormTag, JsonTag |-> shapes[k].JsonTag]]

FormRecords ==
    {RecordOf(sh) : sh \in UNION {[1..n -> FieldShapes] : n \in 0..MaxFields}}

\* Pointers to every record, and the records of at most one field by value.
FormBodies ==
    {Some([kind |-> "ptr", fields |-> f]) : f \in FormRecords}
    \cup {Some([kind |-> "struct", fields |-> f]) : f \in {g \in FormRecords : Len(g) <= 1}}

InitForm ==
    /\ revision = "restclient.go"
    /\ \E body \in FormBodies :
         req = [i \in Callers |->
                  IF i = 1
                  THEN [NewRequest("POST", "url.com", [Username |-> <<>>, Password |-> <<>>])
                           EXCEPT !.RequestBody = body, !.RequestType = "form"]
                  ELSE ZeroRequest]
    /\ call = [i \in Callers |->
                 IF i = 1 THEN InvokeDo(NewCall("start"), req[i])
                 ELSE NewCall("off")]

NextForm == DoEncodeRequestBody(1)

SpecForm == InitForm /\ [][NextForm]_vars

-----------------------------------------------------------------------------
(* The shorthands Get, Post, PostForm, Put, Delete and Patch.              *)

\* The r.Request.Header.Set lines a shorthand runs between NewRequest and
\* Do: those of restclient.go (lines 350, 359-360, 370, 379-380, 389-390,
\* 399-400); in part_000 they are comments (lines 313, 322, 332, 341, 350,
\* 359).
HelperHeaderLines(rev, helper) ==
    IF rev = "part_000" THEN <<>>
    ELSE IF helper \in {"Get", "PostForm"}
         THEN << <<"Accept", "application/json">> >>
         ELSE << <<"Content-Type", "application/json">>, <<"Accept", "application/json">> >>

RECURSIVE SetAll(_, _)
SetAll(h, lines) ==
    IF lines = <<>> THEN h
    ELSE SetAll(HeaderSet(h, lines[1][1], <<lines[1][2]>>), Tail(lines))

\* r.Request.Header.Set(k, v) for each line: a nil-pointer dereference, a
\* panic, when r.Request is nil.
SetRequestHeaders(r, lines) ==
    IF lines = <<>> THEN [r |-> r, panic |-> FALSE]
    ELSE IF r.Request = Nil THEN [r |-> r, panic |-> TRUE]
    ELSE [r |-> [r EXCEPT !.Request =
                    Some([@[1] EXCEPT !.Header = SetAll(@, lines)])],
          panic |-> FALSE]

\* The body of a shorthand: NewRequest, the assignments of the body, the
\* destination and the kind, the header lines, and `return r.Do()`.
Shorthand(i, helper, method, url, auth, body, kind, dest) ==
    LET r == [NewRequest(method, url, auth) EXCEPT !.RequestBody = body,
                                                  !.ResponseBody = dest,
                                                  !.RequestType = kind]
        h == SetRequestHeaders(r, HelperHeaderLines(revision, helper))
        c == [call[i] EXCEPT !.helper = helper,
                             !.args = Some([method |-> method, url |-> url, auth |-> auth,
                                            body |-> body, dest |-> dest])]
    IN  /\ req' = [req EXCEPT ![i] = h.r]
        /\ call' = [call EXCEPT ![i] =
               IF h.panic THEN [c EXCEPT !.pc = "panic"] ELSE InvokeDo(c, h.r)]

Auths == {[Username |-> u, Password |-> p] : u \in Usernames, p \in Passwords}

Get(i) ==
    /\ call[i].pc = "start"
    /\ \E url \in Urls, auth \in Auths, ret \in Destinations :
         Shorthand(i, "Get", "GET", url, auth, Nil, "", ret)
    /\ UNCHANGED revision

Post(i) ==
    /\ call[i].pc = "start"
    /\ \E url \in Urls, auth \in Auths, body \in Bodies, ret \in Destinations :
         Shorthand(i, "Post", "POST", url, auth, body, "", ret)
    /\ UNCHANGED revision

PostForm(i) ==
    /\ call[i].pc = "start"
    /\ \E url \in Urls, auth \in Auths, body \in Bodies, ret \in Destinations :
         Shorthand(i, "PostForm", "POST", url, auth, body, "form", ret)
    /\ UNCHANGED revision

Put(i) ==
    /\ call[i].pc = "start"
    /\ \E url \in Urls, auth \in Auths, body \in Bodies, ret \in Destinations :
         Shorthand(i, "Put", "PUT", url, auth, body, "", ret)
    /\ UNCHANGED revision

Delete(i) ==
    /\ call[i].pc = "start"
    /\ \E url \in Urls, auth \in Auths, body \in Bodies, ret \in Destinations :
         Shorthand(i, "Delete", "DELETE", url, auth, body, "", ret)
    /\ UNCHANGED revision

Patch(i) ==
    /\ call[i].pc = "start"
    /\ \E url \in Urls, auth \in Auths, body \in Bodies, ret \in Destinations :
         Shorthand(i, "Patch", "PATCH", url, auth, body, "", ret)
    /\ UNCHANGED revision

-----------------------------------------------------------------------------
(* Two calls of Do on two distinct Requests, interleaved stage by stage.   *)

\* The Requests the two callers invoke Do on: a json POST with credentials,
\* a GET without a body, a POST of a value json cannot marshal, a GET of a
\* URL that does not parse, and a form POST of a struct passed by value.
PairRequests ==
    LET auth == [Username |-> <<101>>, Password |-> <<112>>]
        none == [Username |-> <<>>, Password |-> <<>>]
        ptr  == Some([kind |-> "ptr", fields |-> <<TestField>>])
        dest == Some([ptr |-> TRUE, Variable |-> "old"])
    IN  {[NewRequest("POST", "url.com", auth)
             EXCEPT !.RequestBody = ptr, !.RequestType = "json", !.ResponseBody = dest],
         [NewRequest("GET", "url.com", none) EXCEPT !.ResponseBody = dest],
         [NewRequest("POST", "url.com", none)
             EXCEPT !.RequestBody = Some([kind |-> "chan", fields |-> <<>>])],
         [NewRequest("GET", "%zz", auth) EXCEPT !.ResponseBody = dest],
         [NewRequest("POST", "url.com", auth)
             EXCEPT !.RequestBody = Some([kind |-> "struct", fields |-> <<TestField>>]),
                    !.RequestType = "form"]}

InitPair ==
    /\ revision \in Revisions
    /\ req \in [Callers -> PairRequests]
    /\ call = [i \in Callers |-> InvokeDo(NewCall("start"), req[i])]

\* One stage of the Do call of caller i.
DoStep(i) ==
    \/ DoEncodeRequestBody(i)
    \/ DoCreateHTTPClient(i)
    \/ DoCreateHTTPRequest(i)
    \/ DoSetHeaders(i)
    \/ DoApplyAuth(i)
    \/ DoExecute(i)
    \/ DoProcessStatusCode(i)
    \/ DoDecodeResponse(i)

NextPair == \E i \in Callers : DoStep(i)

SpecPair == InitPair /\ [][NextPair]_vars

-----------------------------------------------------------------------------
(* A caller that uses a shorthand, and the Do call the shorthand makes.    *)

HelperStep(i) ==
    \/ Get(i)
    \/ Post(i)
    \/ PostForm(i)
    \/ Put(i)
    \/ Delete(i)
    \/ Patch(i)
    \/ DoStep(i)

NextHelpers == \E i \in Callers : HelperStep(i)

SpecHelpers == Init /\ [][NextHelpers]_vars

-----------------------------------------------------------------------------
(* Properties.                                                             *)

In2xx(code) == code >= 200 /\ code < 300

\* The callers whose network call returned a response.
GotResponse(i) == req[i].Response # Nil

StatusCodeOf(i) == req[i].Response[1].StatusCode

\* The outcome of a classification: "success" or the type of the error.
OutcomeOf(e) == IF e = Nil THEN "success" ELSE e[1].type

\* C1: for every status code c, ProcessStatusCode returns no error when
\* 200 <= c < 300, a NotFoundError when c = 404, a RequestError when
\* 400 <= c < 500 and c # 404, a ServerError when 500 <= c < 600, and a plain
\* (untyped) error for every other c; one outcome for each c.
C1_StatusClassification ==
    \A i \in Callers :
        call[i].classified =>
            LET c == StatusCodeOf(i)
                o == OutcomeOf(call[i].classErr)
            IN  /\ (c >= 200 /\ c < 300) => o = "success"
                /\ c = 404 => o = "NotFoundError"
                /\ (c >= 400 /\ c < 500 /\ c # 404) => o = "RequestError"
                /\ (c >= 500 /\ c < 600) => o = "ServerError"
                /\ (c < 200 \/ (c >= 300 /\ c < 400) \/ c >= 600) => o = "error"
                /\ o \in {"success", "NotFoundError", "RequestError", "ServerError", "error"}

C1_Witness ==
    \E i \in Callers :
        /\ call[i].classified
        /\ StatusCodeOf(i) = 600
        /\ OutcomeOf(call[i].classErr) = "error"

\* C2: when the network call returns a response whose status code is outside
\* [200,300), DecodeResponse is not invoked, the body is not read, the
\* destination is as it was before the call, and Do returns the
\* classification error.
C2_NoDecodeOnBadStatus ==
    \A i \in Callers :
        (GotResponse(i) /\ ~In2xx(StatusCodeOf(i))) =>
            /\ ~call[i].bodyRead
            /\ \A k \in 1..Len(call[i].trace) : call[i].trace[k] # "DecodeResponse"
            /\ call[i].pc \in {"ProcessStatusCode", "done"}
            /\ req[i].ResponseBody = call[i].dest0
            /\ call[i].pc = "done" =>
                 /\ call[i].returned
                 /\ call[i].err # Nil
                 /\ call[i].err = call[i].classErr
                 /\ OutcomeOf(call[i].err) = StatusErrorType(StatusCodeOf(i))

C2_Witness ==
    \E i \in Callers :
        /\ call[i].pc = "done"
        /\ GotResponse(i)
        /\ StatusCodeOf(i) = 404
        /\ req[i].Response[1].Body.bytes = <<"{", "}">>
        /\ call[i].dest0 = Some([ptr |-> TRUE, Variable |-> "old"])
        /\ req[i].ResponseBody = call[i].dest0
        /\ OutcomeOf(call[i].err) = "NotFoundError"

\* C3: when the network call returns a response, the body is closed when
\* Execute has returned, on the success, the classification-failure and the
\* decode-failure path, and is open until classification and decoding are
\* over; when the network call fails there is no body and none is closed.
C3_BodyClosedOnReturn ==
    \A i \in Callers :
        /\ (call[i].pc = "done" /\ GotResponse(i)) => call[i].body = "closed"
        /\ call[i].pc \in {"ProcessStatusCode", "DecodeResponse"} => call[i].body = "open"
        /\ call[i].body = "closed" =>
             /\ call[i].pc = "done"
             /\ call[i].stage \in {"ProcessStatusCode", "DecodeResponse"}
        /\ ~GotResponse(i) => call[i].body = "none"

C3_Witness ==
    \E i \in Callers :
        /\ call[i].pc = "done"
        /\ call[i].stage = "ProcessStatusCode"
        /\ call[i].err # Nil
        /\ call[i].body = "closed"

\* The error the encode stage returns for a request, from its inputs.
EncodeErrorOf(r) ==
    IF r.RequestBody # Nil /\ r.RequestType \in {"", "json"}
    THEN JsonMarshal(r.RequestBody[1]).err
    ELSE Nil

\* The error http.NewRequest returns for a request, from its inputs.
BuildErrorOf(r) == HttpNewRequest(r.Method, r.Url, r.RequestReader).err

\* C4: when EncodeRequestBody or createHTTPRequest fails, Do returns that
\* error unchanged and makes no network call: Execute is not reached,
\* Response stays unset, no header and no authentication is applied.
C4_EarlyFailureNoNetwork ==
    \A i \in Callers :
        (call[i].pc = "done" /\ call[i].stage \in {"EncodeRequestBody", "createHTTPRequest"}) =>
            /\ call[i].returned
            /\ call[i].err # Nil
            /\ call[i].stage = "EncodeRequestBody" => call[i].err = EncodeErrorOf(req[i])
            /\ call[i].stage = "createHTTPRequest" => call[i].err = BuildErrorOf(req[i])
            /\ call[i].netCalls = 0
            /\ call[i].sent = Nil
            /\ \A k \in 1..Len(call[i].trace) :
                   call[i].trace[k] \notin {"SetHeaders", "ApplyAuth", "Execute"}
            /\ req[i].Response = Nil
            /\ req[i].Request = Nil
            /\ call[i].body = "none"

C4_Witness ==
    \E i \in Callers :
        /\ call[i].pc = "done"
        /\ call[i].stage = "createHTTPRequest"
        /\ req[i].Method = "BAD METHOD"
        /\ req[i].Auth.Username # <<>>
        /\ call[i].err = BuildErrorOf(req[i])
        /\ call[i].netCalls = 0

\* C5: every error ProcessStatusCode returns for a status code outside
\* [200,300), the not-found, client, server and unclassified errors alike,
\* carries the response's numeric status code and its status text unchanged.
C5_ErrorsCarryCodeAndStatus ==
    \A i \in Callers :
        (call[i].classified /\ call[i].classErr # Nil) =>
            LET e == call[i].classErr[1]
            IN  /\ "StatusCode" \in DOMAIN e
                /\ "Status" \in DOMAIN e
                /\ e.StatusCode = StatusCodeOf(i)
                /\ e.Status = req[i].Response[1].Status

\* The stages a call has run.
HasRun(i, stage) == \E k \in 1..Len(call[i].trace) : call[i].trace[k] = stage

\* C6: in every Do call that reaches the header stage, the outbound request
\* carries Content-Type application/x-www-form-urlencoded when the declared
\* kind is form, and application/json when the declared kind is json or was
\* left unset, whether or not there is a request body.
C6_ContentTypeByKind ==
    \A i \in Callers :
        HasRun(i, "SetHeaders") =>
            LET ct == req[i].Request[1].Header["Content-Type"]
            IN  /\ call[i].kind0 = "form" =>
                     ct = << <<"application/x-www-form-urlencoded">> >>
                /\ call[i].kind0 \in {"json", ""} => ct = << <<"application/json">> >>

\* base64.StdEncoding.DecodeString, the inverse of Base64Encode.
RECURSIVE Base64Decode(_)
Base64Decode(cs) ==
    IF Len(cs) < 4 THEN <<>>
    ELSE LET v1 == B64Value(cs[1])
             v2 == B64Value(cs[2])
             v3 == B64Value(cs[3])
             v4 == B64Value(cs[4])
             b1 == v1 * 4 + v2 \div 16
             b2 == (v2 % 16) * 16 + v3 \div 4
             b3 == (v3 % 4) * 64 + v4
         IN  IF cs[3] = "=" THEN <<b1>>
             ELSE IF cs[4] = "=" THEN <<b1, b2>>
             ELSE <<b1, b2, b3>> \o Base64Decode(SubSeq(cs, 5, Len(cs)))

\* The Authorization header of request is right for the credentials of i:
\* present exactly for a non-empty username, and then one "Basic" value that
\* decodes to username ":" password.
AuthHeaderRight(i, request) ==
    LET h == request.Header["Authorization"]
        u == req[i].Auth.Username
        p == req[i].Auth.Password
    IN  /\ (h # <<>>) <=> (u # <<>>)
        /\ h # <<>> =>
             /\ Len(h) = 1
             /\ Head(h[1]) = "Basic "
             /\ Base64Decode(Tail(h[1])) = u \o <<58>> \o p

\* C7: when Do reaches the execute stage, the outbound request carries a
\* basic-auth Authorization header if and only if Auth.Username is not empty,
\* and the header encodes exactly Auth.Username and Auth.Password; an empty
\* username with a password sends no Authorization header.
C7_BasicAuthIffUsername ==
    \A i \in Callers :
        /\ call[i].args # Nil => req[i].Auth = call[i].args[1].auth
        /\ call[i].pc = "Execute" => AuthHeaderRight(i, req[i].Request[1])
        /\ call[i].sent # Nil => AuthHeaderRight(i, call[i].sent[1])

C7_Witness ==
    \E i \in Callers :
        /\ call[i].sent # Nil
        /\ req[i].Auth.Username = <<>>
        /\ req[i].Auth.Password # <<>>
        /\ call[i].sent[1].Header["Authorization"] = <<>>

\* C8: NewRequest(method, url, auth) returns a Request whose Method, Url and
\* Auth are the arguments, whose Timeout is 2 seconds, and whose body, kind,
\* destination, reader and transport fields are unset.
C8_NewRequestFields ==
    \A i \in Callers :
        call[i].pc = "built" =>
            LET a == call[i].args[1]
            IN  /\ req[i].Method = a.method
                /\ req[i].Url = a.url
                /\ req[i].Auth.Username = a.auth.Username
                /\ req[i].Auth.Password = a.auth.Password
                /\ req[i].Timeout = 2
                /\ req[i].RequestBody = Nil
                /\ req[i].RequestType = ""
                /\ req[i].ResponseBody = Nil
                /\ req[i].RequestReader = Nil
                /\ req[i].Client = Nil
                /\ req[i].Request = Nil
                /\ req[i].Response = Nil

C8_Witness ==
    \E i \in Callers :
        /\ call[i].pc = "built"
        /\ req[i].Method = "GET"
        /\ req[i].Url = "url.com"
        /\ req[i].Auth = [Username |-> <<101, 100>>, Password |-> <<112>>]
        /\ req[i].Timeout = 2

\* C10: when a response with a status in [200,300) has a zero-length body,
\* DecodeResponse returns no error and leaves the destination as it was, a nil
\* destination included, and Do returns no error.
C10_EmptyBodyIsNoOp ==
    \A i \in Callers :
        ( /\ call[i].pc = "done"
          /\ GotResponse(i)
          /\ In2xx(StatusCodeOf(i))
          /\ req[i].Response[1].Body.bytes = <<>>
          /\ ~req[i].Response[1].Body.readErr ) =>
            /\ call[i].stage = "DecodeResponse"
            /\ call[i].bodyRead
            /\ call[i].returned
            /\ call[i].err = Nil
            /\ req[i].ResponseBody = call[i].dest0

C10_Witness ==
    \E i \in Callers :
        /\ call[i].pc = "done"
        /\ GotResponse(i)
        /\ StatusCodeOf(i) = 299
        /\ req[i].Response[1].Body = [bytes |-> <<>>, readErr |-> FALSE]
        /\ call[i].dest0 = Nil
        /\ req[i].ResponseBody = Nil
        /\ call[i].err = Nil

\* The form encoder has returned for caller i: the encoded bytes.
FormEncoded(i) ==
    /\ call[i].pc = "createHTTPClient"
    /\ req[i].RequestBody # Nil
    /\ req[i].RequestType = "form"

FormOutput(i) == req[i].RequestReader[1].bytes

\* url.QueryUnescape, atom by atom.
UnescapeAtom(a) ==
    IF a = "+" THEN " "
    ELSE IF a = "%26" THEN "&"
    ELSE IF a = "%2C" THEN ","
    ELSE IF a = "%3D" THEN "="
    ELSE a

\* The keys of an encoded form: of each "&"-separated pair, the text before "=".
RECURSIVE FormKeys(_)
FormKeys(out) ==
    IF out = <<>> THEN {}
    ELSE LET amp  == Index(out, "&")
             pair == IF amp > 0 THEN Before(out, amp) ELSE out
             rest == IF amp > 0 THEN After(out, amp) ELSE <<>>
             eq   == Index(pair, "=")
             key  == IF eq > 0 THEN Before(pair, eq) ELSE pair
         IN  {[k \in 1..Len(key) |-> UnescapeAtom(key[k])]} \cup FormKeys(rest)

\* What the claim says of one field.  Its tag is the form tag, else the json tag.
TagOf(f) == IF f.FormTag # <<>> THEN f.FormTag ELSE f.JsonTag

\* The name a field resolves to: none for the ignore marker, the text before
\* the first comma of the tag, the field's own name when it has no tag.
NameOf(f) ==
    LET tag == TagOf(f)
        n   == CHOOSE m \in 0..Len(tag) :
                   /\ \A j \in 1..m : tag[j] # ","
                   /\ m = Len(tag) \/ tag[m + 1] = ","
    IN  IF tag = <<>> THEN <<f.Name>>
        ELSE IF tag = <<"-">> THEN <<>>
        ELSE SubSeq(tag, 1, n)

\* The field is tagged omit-empty: omitempty is one of the options after the name.
TaggedOmitEmpty(f) ==
    LET tag == TagOf(f)
    IN  /\ tag # <<"-">>
        /\ \E j \in 2..Len(tag) :
             /\ tag[j] = "omitempty"
             /\ tag[j - 1] = ","
             /\ j = Len(tag) \/ tag[j + 1] = ","

SupportedKind(f) ==
    f.Type \in {"int", "int8", "int16", "int32", "int64",
                "uint", "uint8", "uint16", "uint32", "uint64",
                "float32", "float64", "[]byte", "string"}

\* The formatted value is the empty string: an empty string or byte sequence.
EmptyValued(f) == f.Type \in {"[]byte", "string"} /\ f.Str = <<>>

Contributes(f) ==
    /\ SupportedKind(f)
    /\ NameOf(f) # <<>>
    /\ ~(EmptyValued(f) /\ TaggedOmitEmpty(f))

DoAlone(rev, r, o) ==
    LET e == EncodeRequestBody(r)
        n == createHTTPRequest(createHTTPClient(e.r))
        h == ApplyAuth(SetContentType(rev, n.r))
        x == [h EXCEPT !.Response = o.Response]
        p == ProcessStatusCode(x)
        d == DecodeResponse(x)
    IN  IF e.panic THEN [pc |-> "panic", r |-> e.r, err |-> Nil]
        ELSE IF e.err # Nil THEN [pc |-> "done", r |-> e.r, err |-> e.err]
        ELSE IF n.err # Nil THEN [pc |-> "done", r |-> n.r, err |-> n.err]
        ELSE IF o.err # Nil THEN [pc |-> "done", r |-> x, err |-> o.err]
        ELSE IF p # Nil THEN [pc |-> "done", r |-> x, err |-> p]
        ELSE [pc |-> "done", r |-> d.r, err |-> d.err]

\* What the network returned to caller i (the transport error if the call
\* was never made: DoAlone does not look at it then).
OutcomeSeen(i) ==
    IF call[i].outcome = Nil THEN [Response |-> Nil, err |-> TransportError]
    ELSE call[i].outcome[1]

\* Caller i's call is over and left what the same call leaves when run alone.
SameAsAlone(i) ==
    LET a == DoAlone(revision, call[i].req0[1], OutcomeSeen(i))
    IN  /\ call[i].pc = a.pc
        /\ req[i] = a.r
        /\ call[i].err = a.err

\* A step that changes caller i's call or Request leaves every other
\* caller's call and Request as they were.
StepTouchesOneRequest ==
    \A i \in Callers :
        (call'[i] # call[i] \/ req'[i] # req[i]) =>
            \A j \in Callers \ {i} : call'[j] = call[j] /\ req'[j] = req[j]

\* C11: when the Do calls of two distinct Requests are interleaved stage by
\* stage in any order, no stage of one call changes a field of the other
\* Request or of the other call, and each call ends with the error and the
\* Request state that the same call produces when it runs alone.
C11_InterleavedCallsIndependent ==
    /\ [][StepTouchesOneRequest]_vars
    /\ [](\A i \in Callers : call[i].pc \in {"done", "panic"} => SameAsAlone(i))

\* Both calls are over: caller 1 sent a body and its Do returned no error,
\* caller 2 received a 404 and its Do returned the error for it.
C11_Witness ==
    /\ call[1].pc = "done" /\ call[1].err = Nil /\ req[1].RequestBody # Nil
    /\ call[2].pc = "done" /\ call[2].err # Nil
    /\ GotResponse(2) /\ StatusCodeOf(2) = 404

\* The stages of Do in the order of its text (Do, lines 104-139, and
\* Execute, lines 158-181).
StageOrder ==
    <<"EncodeRequestBody", "createHTTPClient", "createHTTPRequest", "SetHeaders",
      "ApplyAuth", "Execute", "ProcessStatusCode", "DecodeResponse">>

\* The stages caller i has run are the first ones of StageOrder, each once.
TraceInOrder(i) ==
    /\ Len(call[i].trace) <= Len(StageOrder)
    /\ call[i].trace = SubSeq(StageOrder, 1, Len(call[i].trace))

\* The number of network calls is the number of Execute stages run.
NetCallsCounted(i) ==
    call[i].netCalls = Cardinality({k \in 1..Len(call[i].trace) : call[i].trace[k] = "Execute"})

\* A call that is over runs no further stage.
OverMeansOver ==
    \A i \in Callers :
        call[i].pc \in {"done", "panic"} => call'[i] = call[i] /\ req'[i] = req[i]

\* C12: in every Do call the stages run in the order encode body, build
\* transport, build request, set headers, apply auth, execute, classify
\* status, decode body; each stage runs at most once, the last stage run is
\* the one that failed when Do returns an error and every stage has run when
\* it returns none, nothing runs after Do returned, and the network call is
\* attempted at most once.
C12_StagesInOrderAtMostOnce ==
    /\ [](\A i \in Callers :
            /\ TraceInOrder(i)
            /\ NetCallsCounted(i) /\ call[i].netCalls <= 1
            /\ call[i].pc = "done" /\ call[i].err # Nil =>
                   call[i].stage = call[i].trace[Len(call[i].trace)]
            /\ call[i].pc = "done" /\ call[i].err = Nil =>
                   call[i].trace = StageOrder)
    /\ [][OverMeansOver]_vars

\* A Do call that failed at the classification of the status, after one
\* network call and six stages before it, and never decoded the body.
C12_Witness ==
    \E i \in Callers :
        /\ call[i].pc = "done" /\ call[i].err # Nil
        /\ call[i].stage = "ProcessStatusCode"
        /\ call[i].netCalls = 1
        /\ Len(call[i].trace) = 7

\* Caller i's Do call is about to construct the outbound request.
AtRequestConstruction(i) == call[i].inDo /\ call[i].pc = "createHTTPRequest"

\* C13 (as claimed): whenever a Do call reaches createHTTPRequest, the
\* RequestReader has been populated by the encode stage of that call, for
\* every Request, one without a request body included.
C13_ReaderPopulatedBeforeConstruction ==
    \A i \in Callers :
        AtRequestConstruction(i) => req[i].RequestReader # Nil

\* C13 (amended): whenever a Do call reaches createHTTPRequest, the encode
\* stage of that call has run; with a request body it has populated the
\* RequestReader (with no bytes for an unknown kind), and without a request
\* body it has left the RequestReader as it was, nil for a new Request.
C13_ReaderPopulatedIffBody ==
    \A i \in Callers :
        AtRequestConstruction(i) =>
            /\ HasRun(i, "EncodeRequestBody")
            /\ call[i].req0[1].RequestReader = Nil
            /\ req[i].RequestBody = call[i].req0[1].RequestBody
            /\ req[i].RequestBody # Nil => req[i].RequestReader # Nil
            /\ req[i].RequestBody = Nil => req[i].RequestReader = Nil

\* A Do call with a body of an unknown kind is about to construct the
\* request, and its reader is there, with no bytes in it.
C13_Witness ==
    \E i \in Callers :
        /\ AtRequestConstruction(i)
        /\ req[i].RequestBody # Nil
        /\ call[i].kind0 = "xml"
        /\ req[i].RequestReader = Some([bytes |-> <<>>])

\* The declared kind of caller i's call is neither json (or unset) nor form,
\* there is a request body, and the encode stage has run.
UnknownKindEncoded(i) ==
    /\ call[i].inDo
    /\ call[i].req0[1].RequestBody # Nil
    /\ call[i].kind0 \notin {"", "json", "form"}
    /\ HasRun(i, "EncodeRequestBody")

\* C14: with a request body and a declared kind that is neither json nor
\* form, the encode stage runs no encoder (no marshalling error for a value
\* json cannot marshal, no reflect panic for a struct passed by value),
\* returns no error and leaves a reader of zero bytes; Do then fails at
\* request construction only if http.NewRequest rejects the method or the
\* URL, and otherwise makes its network call, with no Content-Type header
\* on the request it sends.
C14_UnknownKindIsSilent ==
    \A i \in Callers :
        UnknownKindEncoded(i) =>
            /\ call[i].pc # "panic"
            /\ ~(call[i].pc = "done" /\ call[i].stage = "EncodeRequestBody")
            /\ req[i].RequestReader = Some([bytes |-> <<>>])
            /\ req[i].RequestType = call[i].kind0
            /\ req[i].Request # Nil => req[i].Request[1].Header["Content-Type"] = <<>>
            /\ call[i].sent # Nil => call[i].sent[1].Header["Content-Type"] = <<>>
            /\ call[i].pc = "done" =>
                   \/ /\ call[i].stage = "createHTTPRequest"
                      /\ \/ req[i].Method \in InvalidMethods
                         \/ req[i].Url \in UnparsableUrls
                   \/ call[i].netCalls = 1 /\ call[i].sent # Nil

\* A Do call with a channel as its body and kind xml made its network call
\* and returned no error.
C14_Witness ==
    \E i \in Callers :
        /\ UnknownKindEncoded(i)
        /\ req[i].RequestBody[1].kind = "chan"
        /\ call[i].pc = "done" /\ call[i].err = Nil
        /\ call[i].netCalls = 1

HelperMethod ==
    [h \in {"Get", "Post", "PostForm", "Put", "Delete", "Patch"} |->
        CASE h = "Get" -> "GET"
          [] h \in {"Post", "PostForm"} -> "POST"
          [] h = "Put" -> "PUT"
          [] h = "Delete" -> "DELETE"
          [] h = "Patch" -> "PATCH"]

\* Caller i has called a shorthand.
CalledHelper(i) == call[i].helper # ""

\* C15: every shorthand (Get, Post, PostForm, Put, Delete, Patch), for any
\* url, auth, body and destination, constructs a Request with its method
\* and the given url, auth, body and destination (kind form for PostForm),
\* touches nothing of the Request that is not constructed yet, always
\* invokes Do on that Request, and returns what Do returns.
C15_HelpersReachDo ==
    \A i \in Callers :
        CalledHelper(i) =>
            /\ req[i].Method = HelperMethod[call[i].helper]
            /\ req[i].Url = call[i].args[1].url
            /\ req[i].Auth = call[i].args[1].auth
            /\ req[i].RequestBody = call[i].args[1].body
            /\ call[i].helper = "PostForm" => req[i].RequestType = "form"
            /\ call[i].inDo
            /\ call[i].req0[1].ResponseBody = call[i].args[1].dest
            /\ call[i].pc = "panic" => HasRun(i, "EncodeRequestBody")
            /\ call[i].pc = "done" => call[i].returned

\* The response body of caller i was read, and was empty or a document
\* that json.Unmarshal stored in the destination the call started with.
BodyEmptyOrDecoded(i) ==
    LET b == req[i].Response[1].Body
    IN  /\ ~b.readErr
        /\ b.bytes = <<>> \/ JsonUnmarshal(b.bytes, call[i].dest0).err = Nil

\* Everything Do needs went well in caller i's call.
AllSucceeded(i) ==
    /\ EncodeRequestBody(call[i].req0[1]).err = Nil
    /\ req[i].Request # Nil
    /\ call[i].netCalls = 1
    /\ call[i].outcome # Nil /\ call[i].outcome[1].err = Nil
    /\ GotResponse(i)
    /\ In2xx(StatusCodeOf(i))
    /\ BodyEmptyOrDecoded(i)

=============================================================================
